---- MODULE Spec2Model ----
(***************************************************************************)
(* Model of the st-shield backend payment flow: POST /api/create-order and *)
(* POST /api/verify-payment of the Express server, the DynamoDB            *)
(* conditional put of models/Policy.js (savePolicy) and the two Brevo      *)
(* e-mail senders.  Every request is a slot of `req`; a handler runs       *)
(* atomically between two awaits, so each action below is the piece of a   *)
(* handler from one await (or the arrival of the request) up to the next.  *)
(* The payment provider, the store and the e-mail service are external:    *)
(* the outcome of each of their calls is chosen nondeterministically.      *)
(***************************************************************************)
EXTENDS Integers, Sequences, FiniteSets, TLC

VARIABLES
    env,         \* process.env, fixed at start-up
    orderStore,  \* the pending-order cache: order id -> expected amount
    policies,    \* the policy table: policyId -> item
    now,         \* Date.now(), in milliseconds
    issued,      \* number of orders the provider has created
    req,         \* the requests
    proc,        \* the process: running, its exit timer, or exited
    rateLimitMap, \* the rate limiter: client IP -> count and resetTime
    rateLog,     \* history: the calls of the rate limiter and their windows
    writes       \* history: for each policy written, the facts at its write

vars ==
    <<env, orderStore, policies, now, issued, req, proc, rateLimitMap, rateLog,
      writes>>

\* what the request handlers leave alone
aside == <<proc, rateLimitMap, rateLog>>

-----------------------------------------------------------------------------
(* Bounds of the model. *)

\* number of HTTP requests (create-order or verify-payment) in one behaviour
MaxReq == 3
\* number of order ids the provider issues in one behaviour
MaxOrders == 2
\* number of times the millisecond clock advances in one behaviour
MaxTicks == 1

\* unhandled promise rejections of a run
MaxRejections == 1
\* windows of the rate limiter the clock runs through after the first
MaxWindows == 1
\* calls per window of the second client of the rate limiter
MaxOtherCalls == 1

-----------------------------------------------------------------------------
(* JavaScript values: the handlers test truthiness (`!amount`,             *)
(* `!expectedAmount`) and strict equality (`!==`), so a value keeps its    *)
(* type.                                                                   *)

Undefined == [t |-> "undefined", v |-> 0]
Num(n) == [t |-> "number", v |-> n]
\* a member every object inherits from Object.prototype (a function)
Inherited == [t |-> "function", v |-> 0]

\* ToBoolean of a value: undefined and 0 are falsy, functions are truthy
Truthy(x) ==
    CASE x.t = "undefined" -> FALSE
      [] x.t = "number" -> x.v # 0
      [] OTHER -> TRUE

\* `a === b`
StrictEq(a, b) == a = b

\* a string is a sequence of characters; the empty string is falsy
NonEmpty(s) == Len(s) > 0

-----------------------------------------------------------------------------
(* The price table and the ids of the model. *)

\* the names planPrices inherits from Object.prototype
ObjectPrototypeNames == {"constructor", "toString", "valueOf", "hasOwnProperty"}

PlanIds == {"student-shield", "student-shield-plus"}

\* planPrices: the own properties of the object literal
planPrices == [p \in PlanIds |-> IF p = "student-shield" THEN 99900 ELSE 199900]

\* planPrices[planType]: a property read, which follows the prototype chain
PlanLookup(planType) ==
    IF planType \in PlanIds THEN Num(planPrices[planType])
    ELSE IF planType \in ObjectPrototypeNames THEN Inherited
    ELSE Undefined

\* req.body.planType of the requests drawn; "undefined" is the key an absent
\* planType is converted to
PlanTypes == PlanIds \cup {"undefined", "", "premium", "constructor", "toString"}

\* a client-supplied amount in the body of /api/create-order (Undefined: none)
ClientAmounts == {Undefined, Num(1)}

Digits == <<"1", "2", "3", "4", "5", "6", "7", "8", "9">>

\* the id the provider gives to its n-th order
OrderId(n) == <<"o", Digits[n]>>
\* an order id the provider never issued
ForgedOrderId == <<"x", "1">>
OrderIdInputs == {OrderId(n) : n \in 1..MaxOrders} \cup {ForgedOrderId, <<>>}

PaymentIdInputs == {<<"p", "1">>, <<>>}

\* amounts the provider reports for a payment, in paise
ProviderAmounts == {99900, 199900, 50000}

\* user_data of /api/verify-payment: absent, the empty object, or an object
\* carrying a client-chosen planType and amount
NoUserData == [t |-> "undefined", planType |-> "", amount |-> Undefined]
EmptyUserData == [t |-> "object", planType |-> "", amount |-> Undefined]
FullUserData == [t |-> "object", planType |-> "student-shield-plus", amount |-> Num(1)]
UserDataInputs == {NoUserData, EmptyUserData, FullUserData}

\* `!user_data`: an object is truthy, also the empty one
UserDataTruthy(u) == u.t = "object"

-----------------------------------------------------------------------------
(* The signature.  HMAC-SHA256 is modelled as an ideal MAC: the digest      *)
(* determines key and message.                                              *)

\* razorpay_order_id + "|" + razorpay_payment_id
SignedBody(orderId, paymentId) == orderId \o <<"|">> \o paymentId

\* crypto.createHmac('sha256', key).update(body).digest('hex')
Hmac(key, body) == [key |-> key, msg |-> body]

\* an absent or empty razorpay_signature
NoSignature == [key |-> "", msg |-> <<>>]
SignatureTruthy(s) == s # NoSignature

\* a razorpay_signature that is a JSON number: truthy, equal to no digest, and
\* without the methods of a string
NumberSignature == [key |-> "number", msg |-> <<"1">>]

\* `razorpay_signature.substring` is a function
SignatureIsString(s) == s # NumberSignature

\* the secret of the deployment and a key that is not the secret
TheSecret == "k1"
WrongKey == "k0"

\* signatures a client may send with the ids of its request
SignatureInputs(orderId, paymentId) ==
    { Hmac(TheSecret, SignedBody(orderId, paymentId)),
      Hmac(WrongKey, SignedBody(orderId, paymentId)),
      NoSignature }

-----------------------------------------------------------------------------
(* The process environment and what is built from it at start-up. *)

EnvInputs ==
    [ RAZORPAY_KEY_ID : {"", "id1"},
      RAZORPAY_KEY_SECRET : {"", TheSecret},
      DYNAMODB_TABLE_NAME : {"", "policies"} ]

\* `razorpay`: the client object, or null (FALSE) without both credentials
razorpay == env.RAZORPAY_KEY_ID # "" /\ env.RAZORPAY_KEY_SECRET # ""

\* `!process.env.RAZORPAY_KEY_SECRET` of the verification handler
SecretMissing == env.RAZORPAY_KEY_SECRET = ""

-----------------------------------------------------------------------------
(* The clock.  The flow reads Date.now() only to make a policy number, so    *)
(* `now` is the last reading, and a reading is the last one plus the time    *)
(* that has passed since: nothing, a millisecond, or 10^8 milliseconds (the  *)
(* last 8 digits come round again).                                          *)

\* the low digits of the clock when the process starts
ClockStart == 199999999

Elapsed == {0, 1, 100000000}

\* how many of the readings so far were later than the one before
TicksUsed ==
    ((now - ClockStart) \div 100000000) + ((now - ClockStart) % 100000000)

\* Date.now() after d milliseconds: the bound of the model caps the clock
ClockMayRead(d) == d = 0 \/ TicksUsed < MaxTicks

-----------------------------------------------------------------------------
(* Requests.  A slot of `req` holds one HTTP request: its body, the place    *)
(* its handler is suspended at (pc), the handler's local variables, the      *)
(* steps it has run (steps), the e-mails it has attempted (emails) and the   *)
(* responses it has sent (res).                                              *)

Requests == 1..MaxReq

NoPolicyNumber == [t |-> "undefined", digits |-> 0]
NullPolicyNumber == [t |-> "null", digits |-> 0]

\* `SSST${Date.now().toString().slice(-8)}`: the last 8 digits of the clock
PolicyNumber(time) == [t |-> "string", digits |-> time % 100000000]

NoBody ==
    [ planType |-> "", amount |-> Undefined,
      razorpay_order_id |-> <<>>, razorpay_payment_id |-> <<>>,
      razorpay_signature |-> NoSignature, user_data |-> NoUserData ]

CreateBodies ==
    { [NoBody EXCEPT !.planType = p, !.amount = a] :
        p \in PlanTypes, a \in ClientAmounts }

VerifyBodies ==
    UNION { UNION { {
        [NoBody EXCEPT !.razorpay_order_id = o, !.razorpay_payment_id = p,
                       !.razorpay_signature = s, !.user_data = u] :
            s \in SignatureInputs(o, p), u \in UserDataInputs }
        : p \in PaymentIdInputs } : o \in OrderIdInputs }

IdleReq ==
    [ kind |-> "none", pc |-> "idle", body |-> NoBody,
      amount |-> Undefined, expectedAmount |-> Undefined,
      paymentAmount |-> Undefined, policyNumber |-> NoPolicyNumber,
      timestamp |-> 0,
      steps |-> <<>>, emails |-> <<>>, res |-> <<>> ]

\* a step of a handler and how it ended: "pending" while awaited
Step(name, result) == [step |-> name, result |-> result]

\* the last step of the log gets its result
Finish(steps, result) == [steps EXCEPT ![Len(steps)].result = result]

\* the JSON body of a response with its status; a key the handler does not
\* send is "absent" (success), NoPolicyNumber or the empty id
Json(status, success, message, policyNumber, id) ==
    [ status |-> status, success |-> success, message |-> message,
      policyNumber |-> policyNumber, id |-> id ]

\* a faulty variant of Respond: the response is sent without `return`, the
\* handler runs on
RespondWithoutReturn(rq, response) ==
    [rq EXCEPT !.res = Append(@, response)]

\* res.status(...).json(...): the handler sends the response and ends
Respond(rq, response) ==
    [rq EXCEPT !.pc = "done", !.res = Append(@, response)]

\* orderStore.get(orderId)
OrderStoreGet(orderId) ==
    IF orderId \in DOMAIN orderStore THEN orderStore[orderId] ELSE Undefined

\* a faulty variant of OrderStoreSet: the cache holds the latest order only
OrderStoreSetLatestOnly(orderId, amount) == [o \in {orderId} |-> amount]

\* orderStore.set(orderId, amount)
OrderStoreSet(orderId, amount) ==
    [o \in DOMAIN orderStore \cup {orderId} |->
        IF o = orderId THEN amount ELSE orderStore[o]]

\* requests arrive in the order of their slots
MayArrive(r) ==
    /\ req[r].kind = "none"
    /\ IF r = 1 THEN TRUE ELSE req[r - 1].kind # "none"

-----------------------------------------------------------------------------
(* POST /api/create-order *)

\* `if (!amount)`: the plan check of the handler
PlanRejected(amount) == ~Truthy(amount)

\* a faulty variant of OrderAmount: an amount in the request body is used when present
OrderAmountFromClient(body) ==
    IF Truthy(body.amount) THEN body.amount ELSE PlanLookup(body.planType)

\* `const amount = planPrices[planType]`: the amount of the order comes from
\* the price table alone
OrderAmount(body) == PlanLookup(body.planType)

\* The provider creates an order only for a numeric amount: JSON leaves a
\* function-valued amount out of the request, and the provider refuses an
\* order without an amount.
ProviderAcceptsOrder(amount) == amount.t = "number"

CreateOrder(r, body) ==
    /\ MayArrive(r)
    /\ LET amount == OrderAmount(body)
           rq == [IdleReq EXCEPT !.kind = "create", !.body = body,
                                 !.amount = amount]
       IN  req' = [req EXCEPT ![r] =
             IF PlanRejected(amount)
               THEN Respond(rq, Json(400, "absent", "Invalid plan type",
                                     NoPolicyNumber, <<>>))
             ELSE IF ~razorpay
               THEN Respond(rq, Json(503, "absent",
                      "Payment service not available - Razorpay not configured",
                      NoPolicyNumber, <<>>))
             ELSE [rq EXCEPT !.pc = "creating",
                             !.steps = <<Step("ordersCreate", "pending")>>]]
    /\ UNCHANGED <<env, aside, orderStore, policies, now, issued, writes>>

\* razorpay.orders.create resolved with a new order
CreateOrderCreated(r) ==
    /\ req[r].pc = "creating"
    /\ ProviderAcceptsOrder(req[r].amount)
    /\ issued < MaxOrders
    /\ LET id == OrderId(issued + 1)
           rq == [req[r] EXCEPT !.steps = Finish(@, "ok")]
       IN  /\ orderStore' = OrderStoreSet(id, rq.amount)
           /\ req' = [req EXCEPT ![r] =
                        Respond(rq, Json(200, "absent", "", NoPolicyNumber, id))]
    /\ issued' = issued + 1
    /\ UNCHANGED <<env, aside, policies, now, writes>>

\* razorpay.orders.create threw or rejected
CreateOrderFailed(r) ==
    /\ req[r].pc = "creating"
    /\ req' = [req EXCEPT ![r] =
                 Respond([req[r] EXCEPT !.steps = Finish(@, "failed")],
                         Json(500, "absent", "Could not create order",
                              NoPolicyNumber, <<>>))]
    /\ UNCHANGED <<env, aside, orderStore, policies, now, issued, writes>>

-----------------------------------------------------------------------------
(* models/Policy.js: savePolicy, a put with the condition                   *)
(* attribute_not_exists(policyId).                                          *)

\* a faulty variant of SavePolicyAccepted: a put without the ConditionExpression
SavePolicyUnconditional(policy, dbOk) ==
    /\ env.DYNAMODB_TABLE_NAME # ""
    /\ dbOk

\* the put of `policy` is accepted: the table is configured, the call
\* reached the store (dbOk) and no item has the policy's key
SavePolicyAccepted(policy, dbOk) ==
    /\ env.DYNAMODB_TABLE_NAME # ""
    /\ dbOk
    /\ policy.policyId \notin DOMAIN policies

\* the table after an accepted put
SavePolicyPut(policy) ==
    [k \in DOMAIN policies \cup {policy.policyId} |->
        IF k = policy.policyId THEN policy ELSE policies[k]]

-----------------------------------------------------------------------------
(* POST /api/verify-payment *)

\* validatePaymentRequest: the three payment fields are truthy
PaymentFieldsPresent(body) ==
    /\ NonEmpty(body.razorpay_order_id)
    /\ NonEmpty(body.razorpay_payment_id)
    /\ SignatureTruthy(body.razorpay_signature)

\* a faulty variant of OrderUnknown: the handler goes on without a cached order
OrderUnknownIgnored(expectedAmount) == FALSE

\* `if (!expectedAmount)`: the order is not in the cache
OrderUnknown(expectedAmount) == ~Truthy(expectedAmount)

\* a faulty variant of AmountMismatch: the fetched amount is not compared
AmountMismatchIgnored(paymentAmount, expectedAmount) == FALSE

\* `paymentDetails.amount !== expectedAmount`
AmountMismatch(paymentAmount, expectedAmount) ==
    ~StrictEq(paymentAmount, expectedAmount)

\* a faulty variant of SignatureValid: the supplied signature is not compared
SignatureValidUnchecked(body) == TRUE

\* `expectedSignature === razorpay_signature`
SignatureValid(body) ==
    Hmac(env.RAZORPAY_KEY_SECRET,
         SignedBody(body.razorpay_order_id, body.razorpay_payment_id))
      = body.razorpay_signature

\* a faulty variant of PolicyItem: the amount of the user data is replaced by
\* the cached amount of the order
PolicyItemPriced(rq) ==
    [ policyId |-> rq.policyNumber,
      orderId |-> rq.body.razorpay_order_id,
      paymentId |-> rq.body.razorpay_payment_id,
      userData |-> [rq.body.user_data EXCEPT !.amount = rq.expectedAmount],
      timestamp |-> rq.timestamp ]

\* policyItem of the handler
PolicyItem(rq) ==
    [ policyId |-> rq.policyNumber,
      orderId |-> rq.body.razorpay_order_id,
      paymentId |-> rq.body.razorpay_payment_id,
      userData |-> rq.body.user_data,
      timestamp |-> rq.timestamp ]

\* an e-mail the handler hands to the e-mail service
Email(kind, policyNumber) ==
    [kind |-> kind, policyNumber |-> policyNumber, result |-> "pending"]

\* policyNumber: 'N/A' of the tamper alert
NotApplicable == [t |-> "string", digits |-> -1]

\* the request arrives: validatePaymentRequest, then the handler up to its
\* first await (the provider's payment fetch)
VerifyPayment(r, body) ==
    /\ MayArrive(r)
    /\ LET rq == [IdleReq EXCEPT !.kind = "verify", !.body = body]
           expectedAmount == OrderStoreGet(body.razorpay_order_id)
           looked == [rq EXCEPT !.expectedAmount = expectedAmount,
                                !.steps = <<Step("validate", "ok")>>]
       IN  req' = [req EXCEPT ![r] =
             IF ~PaymentFieldsPresent(body)
               THEN Respond([rq EXCEPT !.steps = <<Step("validate", "failed")>>],
                      Json(400, "false", "Missing required payment fields",
                           NoPolicyNumber, <<>>))
             ELSE IF ~UserDataTruthy(body.user_data)
               THEN Respond([rq EXCEPT !.steps = <<Step("validate", "failed")>>],
                      Json(400, "false", "Missing user data",
                           NoPolicyNumber, <<>>))
             ELSE IF OrderUnknown(expectedAmount)
               THEN Respond([looked EXCEPT
                               !.steps = Append(@, Step("lookup", "failed"))],
                      Json(400, "false", "Invalid order ID",
                           NoPolicyNumber, <<>>))
             ELSE IF ~razorpay
               \* razorpay.payments of null throws inside the try
               THEN Respond([looked EXCEPT
                               !.steps = @ \o << Step("lookup", "ok"),
                                                 Step("fetch", "failed") >>],
                      Json(500, "false", "Could not verify payment amount",
                           NoPolicyNumber, <<>>))
             ELSE [looked EXCEPT
                     !.pc = "fetching",
                     !.steps = @ \o << Step("lookup", "ok"),
                                       Step("fetch", "pending") >>]]
    /\ UNCHANGED <<env, aside, orderStore, policies, now, issued, writes>>

\* a faulty variant of FetchFailed: the failed fetch is made once more
FetchFailedRetried(r) ==
    /\ req[r].pc = "fetching"
    /\ req' = [req EXCEPT ![r].steps =
                 Append(Finish(@, "failed"), Step("fetch", "pending"))]
    /\ UNCHANGED <<env, aside, orderStore, policies, now, issued, writes>>

\* razorpay.payments.fetch threw or rejected
FetchFailed(r) ==
    /\ req[r].pc = "fetching"
    /\ req' = [req EXCEPT ![r] =
                 Respond([req[r] EXCEPT !.steps = Finish(@, "failed")],
                         Json(500, "false", "Could not verify payment amount",
                              NoPolicyNumber, <<>>))]
    /\ UNCHANGED <<env, aside, orderStore, policies, now, issued, writes>>

\* a faulty variant of PaymentChecks: the signature is compared before the amount
PaymentChecksSignatureFirst ==
    <<"configCheck", "signatureCompare", "amountCompare">>

\* the checks the handler makes on a fetched payment, in the order it makes
\* them: the amount, the configured secret, the signature
PaymentChecks == <<"amountCompare", "configCheck", "signatureCompare">>

CheckPasses(check, rq) ==
    CASE check = "amountCompare" ->
           ~AmountMismatch(rq.paymentAmount, rq.expectedAmount)
      [] check = "configCheck" -> ~SecretMissing
      [] check = "signatureCompare" -> SignatureValid(rq.body)

\* the position of the first check that fails, 0 when all pass
FirstFailing(rq) ==
    LET failing == { i \in 1..Len(PaymentChecks) :
                       ~CheckPasses(PaymentChecks[i], rq) }
    IN  IF failing = {} THEN 0
        ELSE CHOOSE i \in failing : \A j \in failing : i <= j

\* the steps of the checks made: those before the failing one pass, no check
\* is made after it
ChecksMade(failing) ==
    [ i \in 1..(IF failing = 0 THEN Len(PaymentChecks) ELSE failing) |->
        Step(PaymentChecks[i], IF i = failing THEN "failed" ELSE "ok") ]

\* the answer to a signature that is not the expected one: the warning that
\* is logged first reads `razorpay_signature.substring(0, 10)`, which throws
\* for a signature that is no string, into the catch of the handler
InvalidSignature(signature) ==
    IF SignatureIsString(signature)
    THEN Json(400, "false", "Payment verification failed: Invalid signature",
              NoPolicyNumber, <<>>)
    ELSE Json(500, "false",
              "Internal server error during payment verification",
              NoPolicyNumber, <<>>)

\* the handler from the resolved payment fetch up to its next await: the
\* tamper alert e-mail, or the policy write
FetchReturned(r, amount, d) ==
    /\ req[r].pc = "fetching"
    /\ ClockMayRead(d)
    /\ LET rq == [req[r] EXCEPT !.paymentAmount = Num(amount),
                                !.steps = Finish(@, "ok")]
           failing == FirstFailing(rq)
           failed == IF failing = 0 THEN "none" ELSE PaymentChecks[failing]
           checked == [rq EXCEPT !.steps = @ \o ChecksMade(failing)]
           time == now + d
       IN  /\ d # 0 => failing = 0
           /\ now' = IF failing = 0 THEN time ELSE now
           /\ req' = [req EXCEPT ![r] =
                CASE failed = "amountCompare" ->
                       [checked EXCEPT
                          !.pc = "alerting",
                          !.emails = Append(@, Email("alert", NotApplicable))]
                  [] failed = "configCheck" ->
                       Respond(checked, Json(503, "false",
                         "Payment service not available - Razorpay not configured",
                         NoPolicyNumber, <<>>))
                  [] failed = "signatureCompare" ->
                       Respond(checked,
                               InvalidSignature(rq.body.razorpay_signature))
                  [] OTHER ->
                       [checked EXCEPT
                          !.pc = "saving",
                          !.policyNumber = PolicyNumber(time),
                          !.timestamp = time,
                          !.steps = Append(@, Step("write", "pending"))]]
    /\ UNCHANGED <<env, aside, orderStore, policies, issued, writes>>

\* the tamper alert was sent or failed: the response is the same
AlertReturned(r, sent) ==
    /\ req[r].pc = "alerting"
    /\ LET rq == [req[r] EXCEPT
                    !.emails = [@ EXCEPT ![Len(@)].result =
                                  IF sent THEN "sent" ELSE "failed"]]
       IN  req' = [req EXCEPT ![r] =
             Respond(rq, Json(400, "false",
               "Policy creation failed: Trusted payment not received. Please contact support.",
               NoPolicyNumber, <<>>))]
    /\ UNCHANGED <<env, aside, orderStore, policies, now, issued, writes>>

\* what held when the policy of request rq was written
WriteFacts(r, rq) ==
    [ req |-> r,
      inCache |-> rq.body.razorpay_order_id \in DOMAIN orderStore,
      cached |-> OrderStoreGet(rq.body.razorpay_order_id),
      reported |-> rq.paymentAmount,
      signatureOk |->
        rq.body.razorpay_signature =
          Hmac(env.RAZORPAY_KEY_SECRET,
               SignedBody(rq.body.razorpay_order_id, rq.body.razorpay_payment_id)) ]

\* a faulty variant of SaveReturned: the customer e-mail is sent whether the
\* policy was stored or not
SaveReturnedEmailsAnyway(r, dbOk) ==
    /\ req[r].pc = "saving"
    /\ LET rq == req[r]
           policy == PolicyItem(rq)
           accepted == SavePolicyAccepted(policy, dbOk)
       IN  /\ policies' = IF accepted THEN SavePolicyPut(policy) ELSE policies
           /\ writes' = IF accepted
                          THEN [k \in DOMAIN writes \cup {policy.policyId} |->
                                  IF k = policy.policyId THEN WriteFacts(r, rq)
                                  ELSE writes[k]]
                          ELSE writes
           /\ req' = [req EXCEPT ![r] =
                [rq EXCEPT
                   !.pc = "emailCustomer",
                   !.steps = Append(Finish(@, IF accepted THEN "ok" ELSE "failed"),
                                    Step("emailCustomer", "pending")),
                   !.emails = Append(@, Email("customer", rq.policyNumber))]]
    /\ UNCHANGED <<env, aside, orderStore, now, issued>>

\* savePolicy returned or threw; after a write the handler goes on to the
\* customer e-mail, after a failure it answers 500
SaveReturned(r, dbOk) ==
    /\ req[r].pc = "saving"
    /\ LET rq == req[r]
           policy == PolicyItem(rq)
       IN  IF SavePolicyAccepted(policy, dbOk)
             THEN /\ policies' = SavePolicyPut(policy)
                  /\ writes' = [k \in DOMAIN writes \cup {policy.policyId} |->
                                  IF k = policy.policyId THEN WriteFacts(r, rq)
                                  ELSE writes[k]]
                  /\ req' = [req EXCEPT ![r] =
                       [rq EXCEPT
                          !.pc = "emailCustomer",
                          !.steps = Append(Finish(@, "ok"),
                                           Step("emailCustomer", "pending")),
                          !.emails = Append(@, Email("customer", rq.policyNumber))]]
             ELSE /\ req' = [req EXCEPT ![r] =
                       Respond([rq EXCEPT !.steps = Finish(@, "failed")],
                         Json(500, "false",
                           "Payment captured but failed to create policy. Please contact support.",
                           NullPolicyNumber, <<>>))]
                  /\ UNCHANGED <<policies, writes>>
    /\ UNCHANGED <<env, aside, orderStore, now, issued>>

\* res.json of the success path
SuccessResponse(rq) ==
    Json(200, "true", "Payment captured and policy created",
         rq.policyNumber, <<>>)

\* a faulty variant of CustomerEmailReturned: no try around the e-mails, so a throw of
\* the customer e-mail reaches the catch of the policy write
CustomerEmailUncaught(r, sent) ==
    /\ req[r].pc = "emailCustomer"
    /\ LET rq == [req[r] EXCEPT
                    !.steps = Finish(@, IF sent THEN "ok" ELSE "failed"),
                    !.emails = [@ EXCEPT ![Len(@)].result =
                                  IF sent THEN "sent" ELSE "failed"]]
       IN  req' = [req EXCEPT ![r] =
             IF sent
               THEN [rq EXCEPT
                       !.pc = "emailCompany",
                       !.steps = Append(@, Step("emailCompany", "pending")),
                       !.emails = Append(@, Email("company", rq.policyNumber))]
               ELSE Respond(rq, Json(500, "false",
                      "Payment captured but failed to create policy. Please contact support.",
                      NullPolicyNumber, <<>>))]
    /\ UNCHANGED <<env, aside, orderStore, policies, now, issued, writes>>

\* sendCustomerConfirmationEmail returned or threw: after a throw the catch
\* block is entered and the company e-mail is skipped
CustomerEmailReturned(r, sent) ==
    /\ req[r].pc = "emailCustomer"
    /\ LET rq == [req[r] EXCEPT
                    !.steps = Finish(@, IF sent THEN "ok" ELSE "failed"),
                    !.emails = [@ EXCEPT ![Len(@)].result =
                                  IF sent THEN "sent" ELSE "failed"]]
       IN  req' = [req EXCEPT ![r] =
             IF sent
               THEN [rq EXCEPT
                       !.pc = "emailCompany",
                       !.steps = Append(@, Step("emailCompany", "pending")),
                       !.emails = Append(@, Email("company", rq.policyNumber))]
               ELSE Respond(rq, SuccessResponse(rq))]
    /\ UNCHANGED <<env, aside, orderStore, policies, now, issued, writes>>

\* sendCompanyAcknowledgmentEmail returned or threw
CompanyEmailReturned(r, sent) ==
    /\ req[r].pc = "emailCompany"
    /\ LET rq == [req[r] EXCEPT
                    !.steps = Finish(@, IF sent THEN "ok" ELSE "failed"),
                    !.emails = [@ EXCEPT ![Len(@)].result =
                                  IF sent THEN "sent" ELSE "failed"]]
       IN  req' = [req EXCEPT ![r] = Respond(rq, SuccessResponse(rq))]
    /\ UNCHANGED <<env, aside, orderStore, policies, now, issued, writes>>

-----------------------------------------------------------------------------
(* The specification. *)

-----------------------------------------------------------------------------
(* POST /api/verify-payment of the earlier server: validation and the       *)
(* signature only, no cache lookup, no payment fetch, no e-mail.            *)

\* crypto.createHmac('sha256', undefined) throws
SignatureOnlySecretMissing == env.RAZORPAY_KEY_SECRET = ""

\* `expectedSignature === razorpay_signature` of the earlier handler
SignatureOnlyValid(body) ==
    Hmac(env.RAZORPAY_KEY_SECRET,
         body.razorpay_order_id \o <<"|">> \o body.razorpay_payment_id)
      = body.razorpay_signature

\* what the earlier handler does with a request whose policy number is
\* policyNumber when the table accepts the put or not: its response and
\* whether the policy is written
SignatureOnlyVerify(body, policyNumber, accepted) ==
    IF ~PaymentFieldsPresent(body)
      THEN [ res |-> Json(400, "false", "Missing required payment fields",
                          NoPolicyNumber, <<>>),
             written |-> FALSE ]
    ELSE IF ~UserDataTruthy(body.user_data)
      THEN [ res |-> Json(400, "false", "Missing user data",
                          NoPolicyNumber, <<>>),
             written |-> FALSE ]
    ELSE IF SignatureOnlySecretMissing
      THEN [ res |-> Json(500, "false",
                          "Internal server error during payment verification",
                          NoPolicyNumber, <<>>),
             written |-> FALSE ]
    ELSE IF ~SignatureOnlyValid(body)
      THEN [ res |-> InvalidSignature(body.razorpay_signature),
             written |-> FALSE ]
    ELSE IF accepted
      THEN [ res |-> Json(200, "true", "Payment verified and policy created",
                          policyNumber, <<>>),
             written |-> TRUE ]
    ELSE [ res |-> Json(500, "false",
                        "Payment verified but failed to create policy. Please contact support.",
                        NullPolicyNumber, <<>>),
           written |-> FALSE ]

\* the earlier handler for a request that arrives: its one await is the put
\* of savePolicy
VerifySignatureOnly(r, body, dbOk) ==
    /\ MayArrive(r)
    /\ LET rq == [IdleReq EXCEPT !.kind = "verify", !.body = body,
                                 !.policyNumber = PolicyNumber(now),
                                 !.timestamp = now]
           policy == PolicyItem(rq)
           outcome == SignatureOnlyVerify(body, rq.policyNumber,
                                          SavePolicyAccepted(policy, dbOk))
       IN  /\ req' = [req EXCEPT ![r] = Respond(rq, outcome.res)]
           /\ policies' = IF outcome.written THEN SavePolicyPut(policy)
                          ELSE policies
           /\ writes' = IF outcome.written
                          THEN [k \in DOMAIN writes \cup {policy.policyId} |->
                                  IF k = policy.policyId THEN WriteFacts(r, rq)
                                  ELSE writes[k]]
                          ELSE writes
    /\ UNCHANGED <<env, aside, orderStore, now, issued>>

-----------------------------------------------------------------------------
(* The process and the events it has handlers for. *)

\* the delay of the exit timer after an uncaught exception, in milliseconds
GraceDelay == 1000

\* process.exitCode of a process that has not exited
NoExitCode == -1

\* the process after start-up: no event handled, no exit timer set
Started ==
    [ state |-> "running", code |-> NoExitCode, event |-> "none",
      timer |-> "none", waited |-> 0, rejections |-> 0 ]

\* request handlers run until the process has exited
Alive == proc.state # "exited"

\* process.exit(code)
Exit(p, code) == [p EXCEPT !.state = "exited", !.code = code]

\* a faulty variant of UncaughtException: the handler exits without a timer
UncaughtExceptionExitsAtOnce ==
    /\ Alive
    /\ proc.timer = "none"
    /\ proc' = Exit([proc EXCEPT !.event = "uncaughtException"], 1)
    /\ UNCHANGED <<env, orderStore, policies, now, issued, req, rateLimitMap,
                 rateLog, writes>>

\* process.on('uncaughtException'): logs and sets the exit timer
UncaughtException ==
    /\ Alive
    /\ proc.timer = "none"
    /\ proc' = [proc EXCEPT !.event = "uncaughtException",
                            !.timer = "set", !.waited = 0]
    /\ UNCHANGED <<env, orderStore, policies, now, issued, req, rateLimitMap,
                 rateLog, writes>>

\* time passes while the exit timer is set
TimePasses(ms) ==
    /\ Alive
    /\ proc.timer = "set"
    /\ proc.waited < GraceDelay
    /\ proc' = [proc EXCEPT !.waited =
                   IF @ + ms > GraceDelay THEN GraceDelay ELSE @ + ms]
    /\ UNCHANGED <<env, orderStore, policies, now, issued, req, rateLimitMap,
                 rateLog, writes>>

\* the callback of setTimeout(..., 1000): process.exit(1)
ExitTimer ==
    /\ Alive
    /\ proc.timer = "set"
    /\ proc.waited >= GraceDelay
    /\ proc' = Exit([proc EXCEPT !.event = "timer"], 1)
    /\ UNCHANGED <<env, orderStore, policies, now, issued, req, rateLimitMap,
                 rateLog, writes>>

\* process.on('unhandledRejection'): logs
UnhandledRejection ==
    /\ Alive
    /\ proc.rejections < MaxRejections
    /\ proc' = [proc EXCEPT !.event = "unhandledRejection",
                            !.rejections = @ + 1]
    /\ UNCHANGED <<env, orderStore, policies, now, issued, req, rateLimitMap,
                 rateLog, writes>>

\* process.on('SIGTERM') and process.on('SIGINT'): process.exit(0)
Signal(name) ==
    /\ Alive
    /\ proc' = Exit([proc EXCEPT !.event = name], 0)
    /\ UNCHANGED <<env, orderStore, policies, now, issued, req, rateLimitMap,
                 rateLog, writes>>

-----------------------------------------------------------------------------
(* The rate limiting middleware. *)

windowMs == 15 * 60 * 1000
maxRequests == 100

\* req.ip of the callers
ClientIPs == {"ip1", "ip2"}

\* milliseconds between two calls: none, one, a window, a window and one
RateElapsed == {0, 1, windowMs, windowMs + 1}

\* history: the last call, and for each client the window its calls fall
\* in (it starts at the first call, or at the first call made after the
\* window before it was over) with the number of calls passed on in it
NoWindow == [open |-> FALSE, start |-> 0, passed |-> 0]
NoCalls ==
    [ last |-> [ip |-> "", time |-> 0, passedOn |-> FALSE],
      window |-> [ip \in ClientIPs |-> NoWindow] ]

\* a faulty variant of Limited: one call too many is passed on
LimitedOffByOne(clientData) == clientData.count > maxRequests

\* `clientData.count >= maxRequests`
Limited(clientData) == clientData.count >= maxRequests

\* rateLimitMap.set(clientIP, clientData)
RateLimitMapSet(clientIP, clientData) ==
    [ip \in DOMAIN rateLimitMap \cup {clientIP} |->
        IF ip = clientIP THEN clientData ELSE rateLimitMap[ip]]

\* the clock of the model stops after MaxWindows windows
RateClockMayRead(time) ==
    /\ (time - ClockStart) \div windowMs <= MaxWindows
    /\ (time - ClockStart) % windowMs <= MaxWindows

\* the second client makes few calls per window
OtherClientQuiet(clientIP) ==
    (clientIP # "ip1" /\ clientIP \in DOMAIN rateLimitMap) =>
        rateLimitMap[clientIP].count < MaxOtherCalls

\* rateLimit(req, res, next) for a call of clientIP, d milliseconds after
\* the call before
rateLimit(clientIP, d) ==
    LET time == now + d
        known == clientIP \in DOMAIN rateLimitMap
        expired == known /\ time > rateLimitMap[clientIP].resetTime
        fresh == [count |-> 1, resetTime |-> time + windowMs]
        limited == known /\ ~expired /\ Limited(rateLimitMap[clientIP])
        window == rateLog.window[clientIP]
        opens == ~window.open \/ time > window.start + windowMs
        passes == IF limited THEN 0 ELSE 1
    IN  /\ RateClockMayRead(time)
        /\ OtherClientQuiet(clientIP) \/ expired
        /\ now' = time
        /\ rateLimitMap' =
              IF ~known \/ expired THEN RateLimitMapSet(clientIP, fresh)
              ELSE IF limited THEN rateLimitMap
              ELSE RateLimitMapSet(clientIP,
                     [rateLimitMap[clientIP] EXCEPT !.count = @ + 1])
        /\ rateLog' =
              [ last |-> [ip |-> clientIP, time |-> time,
                          passedOn |-> ~limited],
                window |-> [rateLog.window EXCEPT ![clientIP] =
                    IF opens
                      THEN [open |-> TRUE, start |-> time, passed |-> passes]
                      ELSE [window EXCEPT !.passed = @ + passes]] ]
        /\ UNCHANGED <<env, orderStore, policies, issued, req, proc, writes>>

-----------------------------------------------------------------------------
(* Specifications. *)

Init ==
    /\ env \in EnvInputs
    /\ orderStore = << >>
    /\ policies = << >>
    /\ now = ClockStart
    /\ issued = 0
    /\ req = [r \in Requests |-> IdleReq]
    /\ proc = Started
    /\ rateLimitMap = << >>
    /\ rateLog = NoCalls
    /\ writes = << >>

\* The requests of the payment flow: orders for the price-table plans,
\* verifications that pass validation and one that does not
FlowCreateBodies ==
    { b \in CreateBodies :
        /\ b.planType \in PlanIds
        /\ b.amount = Undefined }

FlowVerifyBodies ==
    { b \in VerifyBodies :
        \/ /\ PaymentFieldsPresent(b)
           /\ b.user_data = FullUserData
        \/ /\ b.razorpay_order_id = <<>>
           /\ b.razorpay_payment_id = <<>>
           /\ b.razorpay_signature = NoSignature
           /\ b.user_data = NoUserData }

Next ==
    \/ \E r \in Requests, body \in FlowCreateBodies : CreateOrder(r, body)
    \/ \E r \in Requests, body \in FlowVerifyBodies : VerifyPayment(r, body)
    \/ \E r \in Requests : CreateOrderCreated(r)
    \/ \E r \in Requests : CreateOrderFailed(r)
    \/ \E r \in Requests : FetchFailed(r)
    \/ \E r \in Requests, a \in ProviderAmounts, d \in Elapsed :
          FetchReturned(r, a, d)
    \/ \E r \in Requests, sent \in BOOLEAN : AlertReturned(r, sent)
    \/ \E r \in Requests, dbOk \in BOOLEAN : SaveReturned(r, dbOk)
    \/ \E r \in Requests, sent \in BOOLEAN : CustomerEmailReturned(r, sent)
    \/ \E r \in Requests, sent \in BOOLEAN : CompanyEmailReturned(r, sent)

Spec == Init /\ [][Next]_vars

\* /api/create-order alone, with every planType and client amount drawn
NextCreate ==
    \/ \E r \in Requests, body \in CreateBodies : CreateOrder(r, body)
    \/ \E r \in Requests : CreateOrderCreated(r)
    \/ \E r \in Requests : CreateOrderFailed(r)

SpecCreate == Init /\ [][NextCreate]_vars

\* The payment flow with verifications that lack a field or carry an empty
\* one: each of the four fields of the body present or not, the user data
\* also as the empty object
ValidateBodies ==
    { b \in VerifyBodies :
        /\ b.razorpay_order_id \in {OrderId(1), <<>>}
        /\ b.razorpay_signature \in
              { Hmac(TheSecret, SignedBody(b.razorpay_order_id,
                                           b.razorpay_payment_id)),
                NoSignature } }

NextValidate ==
    \/ \E r \in Requests, body \in FlowCreateBodies : CreateOrder(r, body)
    \/ \E r \in Requests, body \in ValidateBodies : VerifyPayment(r, body)
    \/ \E r \in Requests : CreateOrderCreated(r)
    \/ \E r \in Requests : CreateOrderFailed(r)
    \/ \E r \in Requests : FetchFailed(r)
    \/ \E r \in Requests, a \in ProviderAmounts : FetchReturned(r, a, 0)
    \/ \E r \in Requests, sent \in BOOLEAN : AlertReturned(r, sent)
    \/ \E r \in Requests, dbOk \in BOOLEAN : SaveReturned(r, dbOk)
    \/ \E r \in Requests, sent \in BOOLEAN : CustomerEmailReturned(r, sent)
    \/ \E r \in Requests, sent \in BOOLEAN : CompanyEmailReturned(r, sent)

SpecValidate == Init /\ [][NextValidate]_vars

\* The payment flow with signatures of every kind.  The signature Razorpay
\* hands to the client of a paid order: the hex HMAC-SHA256 of the order id,
\* "|" and the payment id under the key secret
RazorpaySignature(key, orderId, paymentId) ==
    [key |-> key, msg |-> orderId \o <<"|">> \o paymentId]

\* a hex digest with one character changed: the digest of nothing known
ChangedDigest(signature) == [signature EXCEPT !.msg = <<"#">> \o @]

\* order ids and payment ids that differ in one character
SignedOrderIds == {OrderId(1), OrderId(2)}
SignedPaymentIds == {<<"p", "1">>, <<"p", "2">>}

\* what a client may send as razorpay_signature with its ids: the signature
\* of any id pair under the secret, that of its ids under a key one character
\* off, the right signature with one character changed, a number
SignatureKinds(orderId, paymentId) ==
    { RazorpaySignature(TheSecret, o, p) :
        o \in SignedOrderIds, p \in SignedPaymentIds }
    \cup { RazorpaySignature(WrongKey, orderId, paymentId),
           ChangedDigest(RazorpaySignature(TheSecret, orderId, paymentId)),
           NumberSignature }

SignatureBodies ==
    UNION { {
        [NoBody EXCEPT !.razorpay_order_id = o,
                       !.razorpay_payment_id = <<"p", "1">>,
                       !.razorpay_signature = s, !.user_data = FullUserData] :
            s \in SignatureKinds(o, <<"p", "1">>) }
        : o \in SignedOrderIds }

NextSignature ==
    \/ \E r \in Requests, body \in FlowCreateBodies : CreateOrder(r, body)
    \/ \E r \in Requests, body \in SignatureBodies : VerifyPayment(r, body)
    \/ \E r \in Requests : CreateOrderCreated(r)
    \/ \E r \in Requests : CreateOrderFailed(r)
    \/ \E r \in Requests : FetchFailed(r)
    \/ \E r \in Requests, a \in ProviderAmounts : FetchReturned(r, a, 0)
    \/ \E r \in Requests, sent \in BOOLEAN : AlertReturned(r, sent)
    \/ \E r \in Requests, dbOk \in BOOLEAN : SaveReturned(r, dbOk)
    \/ \E r \in Requests, sent \in BOOLEAN : CustomerEmailReturned(r, sent)
    \/ \E r \in Requests, sent \in BOOLEAN : CompanyEmailReturned(r, sent)

SpecSignature == Init /\ [][NextSignature]_vars

\* The payment flow of one plan in a process that handles process events:
\* orders for 'student-shield', verifications of the first order with the
\* right signature
ProcessCreateBodies ==
    { b \in FlowCreateBodies : b.planType = "student-shield" }

ProcessVerifyBodies ==
    { b \in FlowVerifyBodies :
        /\ b.razorpay_order_id = OrderId(1)
        /\ b.razorpay_signature =
              Hmac(TheSecret, SignedBody(b.razorpay_order_id,
                                         b.razorpay_payment_id)) }

\* a request arrives in slot r
Arrival(r) ==
    \/ \E body \in ProcessCreateBodies : CreateOrder(r, body)
    \/ \E body \in ProcessVerifyBodies : VerifyPayment(r, body)

\* the handler of request r runs on from the await it is suspended at
HandlerStep(r) ==
    \/ CreateOrderCreated(r)
    \/ CreateOrderFailed(r)
    \/ FetchFailed(r)
    \/ \E a \in ProviderAmounts : FetchReturned(r, a, 0)
    \/ \E sent \in BOOLEAN : AlertReturned(r, sent)
    \/ \E dbOk \in BOOLEAN : SaveReturned(r, dbOk)
    \/ \E sent \in BOOLEAN : CustomerEmailReturned(r, sent)
    \/ \E sent \in BOOLEAN : CompanyEmailReturned(r, sent)

\* the signals the process has handlers for
Signals == {"SIGTERM", "SIGINT"}

\* steps of the time that passes while the exit timer is set
TimeSteps == {500}

NextProcess ==
    \/ \E r \in Requests : Alive /\ Arrival(r)
    \/ \E r \in Requests : Alive /\ HandlerStep(r)
    \/ UncaughtException
    \/ \E ms \in TimeSteps : TimePasses(ms)
    \/ ExitTimer
    \/ UnhandledRejection
    \/ \E name \in Signals : Signal(name)

SpecProcess == Init /\ [][NextProcess]_vars

\* Verifications whose ids are any strings validation lets through.  The
\* ids: the strings of up to MaxIdLen characters, the separator among them,
\* in pairs of up to MaxIdLen + 1 characters
MaxIdLen == 2
IdCharacters == {"a", "|"}
IdStrings ==
    UNION { [1..n -> IdCharacters] : n \in 1..MaxIdLen }

\* the pair of ids of a payment that was made, and its signature
PaidOrderId == <<"a", "|">>
PaidPaymentId == <<"a">>

PairBodies ==
    { b \in
        { [NoBody EXCEPT !.razorpay_order_id = o, !.razorpay_payment_id = p,
                         !.razorpay_signature =
                            RazorpaySignature(TheSecret, PaidOrderId,
                                              PaidPaymentId),
                         !.user_data = FullUserData] :
            o \in IdStrings, p \in IdStrings } :
        Len(b.razorpay_order_id) + Len(b.razorpay_payment_id) <= MaxIdLen + 1 }

NextPairs ==
    \/ \E r \in Requests, body \in PairBodies : VerifyPayment(r, body)
    \/ \E r \in Requests, body \in PairBodies, dbOk \in BOOLEAN :
          VerifySignatureOnly(r, body, dbOk)

SpecPairs == Init /\ [][NextPairs]_vars

\* The rate limiter alone, called by two clients as time passes
NextRate ==
    \E clientIP \in ClientIPs, d \in RateElapsed : rateLimit(clientIP, d)

SpecRate == Init /\ [][NextRate]_vars

-----------------------------------------------------------------------------
(* What the properties below speak of. *)

Verifies == { r \in Requests : req[r].kind = "verify" }
Creates == { r \in Requests : req[r].kind = "create" }

\* how the step `name` of a request ended; "none" when it was never started
StepResult(rq, name) ==
    IF \E i \in 1..Len(rq.steps) : rq.steps[i].step = name
      THEN LET i == CHOOSE j \in 1..Len(rq.steps) : rq.steps[j].step = name
           IN  rq.steps[i].result
      ELSE "none"

\* all required fields of a verification request are present
Validated(rq) ==
    /\ PaymentFieldsPresent(rq.body)
    /\ UserDataTruthy(rq.body.user_data)

\* the e-mails of a kind a request has attempted
EmailsOfKind(rq, kind) ==
    { i \in 1..Len(rq.emails) : rq.emails[i].kind = kind }

\* request r has written no policy
WroteNothing(r) == \A k \in DOMAIN policies : writes[k].req # r

\* the steps of a verification in the order of the specification
VerifySteps ==
    << "validate", "lookup", "fetch", "amountCompare", "configCheck",
       "signatureCompare", "write", "emailCustomer", "emailCompany" >>

\* the messages of the responses that report a failed verification
VerificationFailureMessages ==
    { "Missing required payment fields", "Missing user data",
      "Invalid order ID", "Could not verify payment amount",
      "Policy creation failed: Trusted payment not received. Please contact support.",
      "Payment verification failed: Invalid signature",
      "Payment service not available - Razorpay not configured",
      "Internal server error during payment verification" }

-----------------------------------------------------------------------------
(* The properties. *)

\* every record has its write, made by a verification whose checks had passed
PolicyWrittenOnlyWhenVerified ==
    /\ DOMAIN writes = DOMAIN policies
    /\ \A k \in DOMAIN policies :
         LET w == writes[k]
             rq == req[w.req]
         IN  /\ rq.kind = "verify"
             /\ StepResult(rq, "write") = "ok"
             /\ policies[k].policyId = k
             /\ policies[k].orderId = rq.body.razorpay_order_id
             /\ policies[k].paymentId = rq.body.razorpay_payment_id
             /\ w.inCache
             /\ w.reported = w.cached
             /\ w.signatureOk

\* C1: every record of the policy store was written by a verification
\* request, and when it was written the request's order id was a key of the
\* cache, the amount the provider reported was the cached amount and the
\* signature was the HMAC of orderId|paymentId under the configured secret;
\* nothing else writes a policy.
C1_PolicyWrittenOnlyWhenVerified == []PolicyWrittenOnlyWhenVerified

C1_Witness ==
    \E k \in DOMAIN policies :
        /\ writes[k].inCache
        /\ writes[k].signatureOk
        /\ req[writes[k].req].pc = "done"

\* the step log of a verification is a prefix of VerifySteps, each step but
\* the last ended well
StepsInOrder ==
    \A r \in Verifies :
        LET st == req[r].steps
        IN  /\ Len(st) <= Len(VerifySteps)
            /\ \A i \in 1..Len(st) : st[i].step = VerifySteps[i]
            /\ \A i \in 1..(Len(st) - 1) : st[i].result = "ok"
            /\ req[r].res # <<>> =>
                 \A i \in 1..Len(st) : st[i].result # "pending"
            /\ (\E i \in 1..Len(req[r].res) : req[r].res[i].status = 200) =>
                 /\ StepResult(req[r], "write") = "ok"
                 /\ StepResult(req[r], "emailCustomer") \in {"ok", "failed"}

\* C2: the steps of a verification run in the order lookup, fetch, amount
\* comparison, signature comparison, write, e-mails, response; a step starts
\* only when the one before it has ended well, and the response of success
\* only when the write succeeded and no e-mail is pending.
C2_StepsInOrder == []StepsInOrder

C2_Witness ==
    \E r \in Verifies :
        /\ req[r].pc = "done"
        /\ Len(req[r].steps) = Len(VerifySteps)
        /\ req[r].res[1].status = 200

\* a validated verification for an order id outside the cache has ended with
\* 400 and has done nothing else
UnknownOrderRejected ==
    \A r \in Verifies :
        LET rq == req[r]
        IN  ( /\ Validated(rq)
              /\ rq.body.razorpay_order_id \notin DOMAIN orderStore )
            => /\ rq.pc = "done"
               /\ rq.res = << Json(400, "false", "Invalid order ID",
                                   NoPolicyNumber, <<>>) >>
               /\ StepResult(rq, "fetch") = "none"
               /\ StepResult(rq, "write") = "none"
               /\ rq.emails = <<>>
               /\ WroteNothing(r)

\* C3: a verification with all fields present whose order id is not in the
\* cache is answered 400 'Invalid order ID', with a valid signature too, and
\* fetches nothing, writes nothing and sends no e-mail.
C3_UnknownOrderRejected == []UnknownOrderRejected

C3_Witness ==
    \E r \in Verifies :
        /\ Validated(req[r])
        /\ req[r].body.razorpay_order_id \notin DOMAIN orderStore
        /\ razorpay
        /\ req[r].body.razorpay_signature =
             Hmac(env.RAZORPAY_KEY_SECRET,
                  SignedBody(req[r].body.razorpay_order_id,
                             req[r].body.razorpay_payment_id))
        /\ req[r].pc = "done"

\* a verification whose reported amount differs from the cached one is on the
\* alert path
AmountMismatchRejected ==
    \A r \in Verifies :
        LET rq == req[r]
        IN  ( /\ rq.paymentAmount.t = "number"
              /\ rq.paymentAmount # OrderStoreGet(rq.body.razorpay_order_id) )
            => /\ rq.pc \in {"alerting", "done"}
               /\ StepResult(rq, "signatureCompare") = "none"
               /\ StepResult(rq, "write") = "none"
               /\ WroteNothing(r)
               /\ Len(rq.emails) = 1
               /\ rq.emails[1].kind = "alert"
               /\ rq.pc = "alerting" =>
                    /\ rq.res = <<>>
                    /\ rq.emails[1].result = "pending"
               /\ rq.pc = "done" =>
                    /\ rq.emails[1].result \in {"sent", "failed"}
                    /\ rq.res = << Json(400, "false",
                         "Policy creation failed: Trusted payment not received. Please contact support.",
                         NoPolicyNumber, <<>>) >>

\* C4: when the amount the provider reports differs from the cached amount
\* of the order, the request is answered 400 (amount mismatch), writes no
\* policy, never compares the signature and attempts exactly one business
\* alert e-mail; the response is the same whether that e-mail is sent or fails.
C4_AmountMismatchRejected == []AmountMismatchRejected

C4_Witness ==
    \E r \in Verifies :
        /\ req[r].paymentAmount = Num(50000)
        /\ OrderStoreGet(req[r].body.razorpay_order_id) = Num(99900)
        /\ req[r].pc = "done"
        /\ req[r].emails[1].result = "failed"

\* a verification whose write failed has ended with the 500 of a policy that
\* could not be created
WriteFailureAnswered500 ==
    /\ \A r \in Verifies :
         LET rq == req[r]
         IN  StepResult(rq, "write") = "failed"
             => /\ rq.pc = "done"
                /\ Len(rq.res) = 1
                /\ rq.res[1].status = 500
                /\ rq.res[1].success = "false"
                /\ rq.res[1].policyNumber = NullPolicyNumber
                /\ rq.res[1].message =
                     "Payment captured but failed to create policy. Please contact support."
                /\ rq.res[1].message \notin VerificationFailureMessages
                /\ rq.emails = <<>>
                /\ Cardinality({ i \in 1..Len(rq.steps) :
                                   rq.steps[i].step = "write" }) = 1
                /\ WroteNothing(r)
    /\ \A r1, r2 \in Verifies :
         ( /\ r1 # r2
           /\ StepResult(req[r1], "write") = "ok"
           /\ StepResult(req[r2], "write") = "ok" )
         => req[r1].policyNumber # req[r2].policyNumber
    /\ env.DYNAMODB_TABLE_NAME = "" =>
         \A r \in Verifies : StepResult(req[r], "write") # "ok"

\* C5: when the policy write fails, also because a record with the policy id
\* exists, the request is answered 500 with success false, policyNumber null
\* and the contact-support message, which is no verification-failure
\* message; it attempts no e-mail and does not write again.  A write to an
\* existing policy id is such a failure: no two requests have written under
\* one policy id.
C5_WriteFailureAnswered500 == []WriteFailureAnswered500

\* a write that failed on the not-exists precondition
C5_Witness ==
    \E r \in Verifies :
        /\ StepResult(req[r], "write") = "failed"
        /\ req[r].policyNumber \in DOMAIN policies
        /\ req[r].pc = "done"

\* a verification whose write succeeded keeps its record and ends with 200
WrittenPolicyAnswered200 ==
    \A r \in Verifies :
        LET rq == req[r]
        IN  StepResult(rq, "write") = "ok"
            => /\ rq.policyNumber \in DOMAIN policies
               /\ policies[rq.policyNumber] = PolicyItem(rq)
               /\ rq.pc \in {"emailCustomer", "emailCompany", "done"}
               /\ rq.pc # "done" => rq.res = <<>>
               /\ rq.pc = "done" =>
                    rq.res = << Json(200, "true",
                                     "Payment captured and policy created",
                                     rq.policyNumber, <<>>) >>

\* C6: once the policy write has succeeded the request is answered 200 with
\* success true and the generated policy number, whatever the e-mails do,
\* and the record written stays as it was written.
C6_WrittenPolicyAnswered200 == []WrittenPolicyAnswered200

C6_Witness ==
    \E r \in Verifies :
        /\ StepResult(req[r], "write") = "ok"
        /\ req[r].pc = "done"
        /\ req[r].emails[1].kind = "customer"
        /\ req[r].emails[1].result = "failed"

\* C7: after a successful policy write both the customer confirmation and
\* the business acknowledgment are attempted, the second also when the first
\* has failed.
C7_BothEmailsAttempted ==
    \A r \in Verifies :
        ( /\ StepResult(req[r], "write") = "ok"
          /\ req[r].pc = "done" )
        => /\ EmailsOfKind(req[r], "customer") # {}
           /\ EmailsOfKind(req[r], "company") # {}

\* C8: a verification with all fields present, made while the payment
\* provider is not configured, is answered 503.
C8_UnconfiguredAnswered503 ==
    \A r \in Verifies :
        ( /\ Validated(req[r])
          /\ ~razorpay
          /\ req[r].pc = "done" )
        => /\ Len(req[r].res) = 1
           /\ req[r].res[1].status = 503

\* C9: a /api/create-order request whose planType is not a configured plan
\* identifier (absent, empty, another string, a name objects inherit) is
\* answered 400 'Invalid plan type' without a call of the provider or a new
\* cache entry; the configured identifiers resolve to 99900 and 199900.
C9_UnknownPlanRejected ==
    \A r \in Creates :
        LET rq == req[r]
        IN  /\ rq.body.planType \notin PlanIds =>
                 /\ rq.pc = "done"
                 /\ rq.res = << Json(400, "absent", "Invalid plan type",
                                     NoPolicyNumber, <<>>) >>
                 /\ rq.steps = <<>>
            /\ rq.body.planType = "student-shield" => rq.amount = Num(99900)
            /\ rq.body.planType = "student-shield-plus" => rq.amount = Num(199900)

FieldMissing(body) ==
    \/ body.razorpay_order_id = <<>>
    \/ body.razorpay_payment_id = <<>>
    \/ body.razorpay_signature = NoSignature
    \/ body.user_data \in {NoUserData, EmptyUserData}

\* C11: a verification whose order id, payment id, signature or user data is
\* missing or empty, the empty user-data object included, is answered 400 and
\* makes no further step: no cache lookup, no payment fetch, no policy write,
\* no e-mail
C11_MissingFieldRejected ==
    \A r \in Verifies :
        FieldMissing(req[r].body) =>
            /\ req[r].pc = "done"
            /\ req[r].res[1].status = 400
            /\ \A i \in 1..Len(req[r].steps) :
                   req[r].steps[i].step = "validate"
            /\ req[r].emails = <<>>
            /\ WroteNothing(r)

\* the steps of a request with the given name
StepsNamed(rq, name) ==
    { i \in 1..Len(rq.steps) : rq.steps[i].step = name }

\* a verification whose payment fetch failed has ended with 500 and has done
\* nothing else
FetchFailureAnswered500 ==
    \A r \in Verifies :
        (\E i \in StepsNamed(req[r], "fetch") :
            req[r].steps[i].result = "failed") =>
            /\ req[r].pc = "done"
            /\ req[r].res = << Json(500, "false",
                                    "Could not verify payment amount",
                                    NoPolicyNumber, <<>>) >>
            /\ Cardinality(StepsNamed(req[r], "fetch")) = 1
            /\ StepsNamed(req[r], "write") = {}
            /\ req[r].emails = <<>>
            /\ WroteNothing(r)

\* C12: when the payment fetch of a verification for a cached order fails,
\* the request ends with 500 'Could not verify payment amount', no policy is
\* written, no e-mail is sent and the fetch is made once only
C12_FetchFailureAnswered500 == []FetchFailureAnswered500

C12_Witness ==
    \E r \in Verifies :
        /\ req[r].body.razorpay_order_id \in DOMAIN orderStore
        /\ StepResult(req[r], "fetch") = "failed"
        /\ req[r].pc = "done"

\* C13: when the order is cached and the provider reports the cached amount
\* but the supplied signature is not the HMAC of the ids under the secret, the
\* request is answered 400 'Payment verification failed: Invalid signature',
\* no policy is written and no e-mail is sent
C13_WrongSignatureAnswered400 ==
    \A r \in Verifies :
        ( /\ StepResult(req[r], "lookup") = "ok"
          /\ StepResult(req[r], "fetch") = "ok"
          /\ req[r].paymentAmount = req[r].expectedAmount
          /\ req[r].body.razorpay_signature #
                RazorpaySignature(env.RAZORPAY_KEY_SECRET,
                                  req[r].body.razorpay_order_id,
                                  req[r].body.razorpay_payment_id) ) =>
            /\ req[r].pc = "done"
            /\ req[r].res = << Json(400, "false",
                                    "Payment verification failed: Invalid signature",
                                    NoPolicyNumber, <<>>) >>
            /\ StepsNamed(req[r], "write") = {}
            /\ req[r].emails = <<>>
            /\ WroteNothing(r)

\* verifications answered 200
Answered200(r) ==
    /\ r \in Verifies
    /\ req[r].pc = "done"
    /\ req[r].res[1].status = 200

\* two verifications of the same order id and payment id
SamePayment(r1, r2) ==
    /\ r1 # r2
    /\ req[r1].body.razorpay_order_id = req[r2].body.razorpay_order_id
    /\ req[r1].body.razorpay_payment_id = req[r2].body.razorpay_payment_id

\* two successful verifications of one order have two records
OrderVerifiedTwice ==
    \A r1, r2 \in Requests :
        (Answered200(r1) /\ Answered200(r2) /\ SamePayment(r1, r2)) =>
            LET o == req[r1].body.razorpay_order_id
                p == req[r1].body.razorpay_payment_id
                k1 == req[r1].policyNumber
                k2 == req[r2].policyNumber
            IN  /\ k1 # k2
                /\ {k1, k2} \subseteq DOMAIN policies
                /\ \A k \in {k1, k2} :
                       policies[k].orderId = o /\ policies[k].paymentId = p
                /\ o \in DOMAIN orderStore
                /\ orderStore[o] = req[r1].expectedAmount
                /\ orderStore[o] = req[r2].expectedAmount

\* C14: an order can be verified more than once.  Two verifications with the
\* same order id, payment id and valid signature can both be answered 200;
\* they then have different policy ids and leave two policy records with the
\* same orderId and paymentId, and the order is still in the cache: nothing
\* marks it as consumed
C14_OrderVerifiedTwice == []OrderVerifiedTwice

C14_Witness ==
    \E r1, r2 \in Requests :
        /\ Answered200(r1) /\ Answered200(r2) /\ SamePayment(r1, r2)
        /\ req[r1].body.razorpay_signature = req[r2].body.razorpay_signature
        /\ Cardinality({ k \in DOMAIN policies :
                policies[k].orderId = req[r1].body.razorpay_order_id }) = 2

\* two verifications that passed every check and generated the same policy id
SamePolicyId(r1, r2) ==
    /\ r1 # r2
    /\ {r1, r2} \subseteq Verifies
    /\ req[r1].policyNumber.t = "string"
    /\ req[r1].policyNumber = req[r2].policyNumber

\* of the verifications that drew one policy id at most one has written
SamePolicyIdOneWrite ==
    \A r1, r2 \in Requests :
        (SamePolicyId(r1, r2) /\ StepResult(req[r1], "write") = "ok") =>
            /\ StepResult(req[r2], "write") # "ok"
            /\ policies[req[r1].policyNumber] = PolicyItem(req[r1])
            /\ StepResult(req[r2], "write") = "failed" =>
                  /\ req[r2].pc = "done"
                  /\ req[r2].res = << Json(500, "false",
                        "Payment captured but failed to create policy. Please contact support.",
                        NullPolicyNumber, <<>>) >>
                  /\ req[r2].emails = <<>>

\* C15: of two verifications that generate the same policy id at most one
\* write succeeds: once the record of one is stored, the write of the other
\* fails, that request is answered the generic 500 with policyNumber null,
\* and the stored record stays the one of the first
C15_SamePolicyIdOneWrite == []SamePolicyIdOneWrite

C15_Witness ==
    \E r1, r2 \in Requests :
        /\ SamePolicyId(r1, r2)
        /\ StepResult(req[r1], "write") = "ok"
        /\ StepResult(req[r2], "write") = "failed"
        /\ PolicyItem(req[r2]) # policies[req[r1].policyNumber]
        /\ env.DYNAMODB_TABLE_NAME # ""

\* the savePolicy call of request r returns in this step
SavePolicyReturns(r) == req[r].pc = "saving" /\ req'[r].pc # "saving"

\* C16: savePolicy is an idempotent create.  For a record whose policyId is
\* in the table it fails and leaves the table as it was; when it succeeds the
\* policyId was absent and the table gains exactly that record; a failed call
\* changes nothing
C16_SavePolicyIdempotentCreate ==
    [][ \A r \in Requests :
          SavePolicyReturns(r) =>
            LET policy == PolicyItem(req[r])
                result == StepResult(req'[r], "write")
            IN  /\ policy.policyId \in DOMAIN policies =>
                      result = "failed" /\ policies' = policies
                /\ result = "failed" => policies' = policies
                /\ result = "ok" =>
                      /\ policy.policyId \notin DOMAIN policies
                      /\ DOMAIN policies' =
                            DOMAIN policies \cup {policy.policyId}
                      /\ policies'[policy.policyId] = policy
                      /\ \A k \in DOMAIN policies : policies'[k] = policies[k]
      ]_vars

C16_Witness ==
    \E r \in Verifies :
        /\ StepResult(req[r], "write") = "failed"
        /\ req[r].policyNumber \in DOMAIN policies
        /\ writes[req[r].policyNumber].req # r
        /\ Cardinality(DOMAIN policies) = 1

\* every 200 answer has its one record, written by that request and holding
\* the values of that request
OneRecordPer200 ==
    \A r \in Requests :
        Answered200(r) =>
            /\ { k \in DOMAIN policies : writes[k].req = r }
                  = {req[r].policyNumber}
            /\ policies[req[r].policyNumber] = PolicyItem(req[r])

\* the records of the table stay, each with its field values
RecordsKept ==
    \A k \in DOMAIN policies :
        k \in DOMAIN policies' /\ policies'[k] = policies[k]

\* C17: a policy record is created exactly once per successful verification
\* and never changed: every 200 answer corresponds to exactly one record of
\* the table, written for that request, and the table only grows, each record
\* keeping its field values
C17_RecordsCreatedOnceNeverChanged ==
    []OneRecordPer200 /\ [][RecordsKept]_vars

C17_Witness ==
    \E r \in Requests :
        /\ Answered200(r)
        /\ policies[req[r].policyNumber] = PolicyItem(req[r])
        /\ Cardinality(DOMAIN policies) = 2
        /\ \E r2 \in Verifies : req[r2].pc = "emailCustomer"

\* an order id create-order answered 200 with is in the cache with the price
\* of that request
AnsweredOrdersCached ==
    \A r \in Creates :
        (req[r].pc = "done" /\ req[r].res[1].status = 200) =>
            /\ req[r].res[1].id \in DOMAIN orderStore
            /\ orderStore[req[r].res[1].id] = req[r].amount

\* the entries of the cache stay, each with its amount
CacheEntriesKept ==
    \A o \in DOMAIN orderStore :
        o \in DOMAIN orderStore' /\ orderStore'[o] = orderStore[o]

\* a verification that arrives for a cached order id is not answered
\* 'Invalid order ID'
CachedOrderFound ==
    \A r \in Requests :
        ( /\ req[r].kind = "none"
          /\ req'[r].kind = "verify"
          /\ req'[r].body.razorpay_order_id \in DOMAIN orderStore ) =>
            \A i \in 1..Len(req'[r].res) :
                req'[r].res[i].message # "Invalid order ID"

\* C18: once create-order has answered 200 with an order id, the cache entry
\* of that id is never removed and its amount never changes, so no later
\* verification for that id is answered 'Invalid order ID'
C18_CachedOrderStaysCached ==
    /\ []AnsweredOrdersCached
    /\ [][CacheEntriesKept /\ CachedOrderFound]_vars

C18_Witness ==
    \E c \in Creates, r1, r2 \in Verifies :
        /\ req[c].pc = "done" /\ req[c].res[1].status = 200
        /\ r1 # r2
        /\ req[r1].body.razorpay_order_id = req[c].res[1].id
        /\ req[r2].body.razorpay_order_id = req[c].res[1].id
        /\ req[r1].pc = "done"
        /\ StepResult(req[r1], "lookup") = "ok"
        /\ req[r2].pc = "fetching"

\* the create-order requests whose provider call returned an order
OrdersReturned ==
    { r \in Creates : StepResult(req[r], "ordersCreate") = "ok" }

\* C19: a create-order request with a configured planType is answered 503
\* when the provider client is not configured and 500 when the order-creation
\* call fails, the cache unchanged in both cases; the plan check comes first,
\* so an unknown planType is answered 400 also when the provider is not
\* configured; a cache entry is only added once the provider returned an
\* order id
C19_CreateOrderFailures ==
    /\ \A r \in Creates :
          LET rq == req[r]
          IN  /\ (rq.body.planType \in PlanIds /\ ~razorpay) =>
                    /\ rq.pc = "done"
                    /\ rq.res[1].status = 503
                    /\ rq.steps = <<>>
              /\ StepResult(rq, "ordersCreate") = "failed" =>
                    /\ rq.pc = "done"
                    /\ rq.res[1].status = 500
              /\ rq.body.planType \notin PlanIds =>
                    /\ rq.pc = "done"
                    /\ rq.res[1].status = 400
                    /\ rq.steps = <<>>
    /\ DOMAIN orderStore = { req[r].res[1].id : r \in OrdersReturned }
    /\ Cardinality(DOMAIN orderStore) = Cardinality(OrdersReturned)

\* the supplied signature is the right one with the order id, the payment
\* id, the key or the digest changed in one character
OneCharacterOff(rq) ==
    LET o == rq.body.razorpay_order_id
        p == rq.body.razorpay_payment_id
    IN  rq.body.razorpay_signature \in
          { RazorpaySignature(TheSecret, o2, p) : o2 \in SignedOrderIds \ {o} }
          \cup { RazorpaySignature(TheSecret, o, p2) :
                   p2 \in SignedPaymentIds \ {p} }
          \cup { RazorpaySignature(WrongKey, o, p),
                 ChangedDigest(RazorpaySignature(TheSecret, o, p)) }

\* C20: the signature comparison accepts exactly the correct signature.  It
\* succeeds when the supplied signature is the hex HMAC-SHA256 of order id,
\* "|" and payment id under the configured secret, fails when order id,
\* payment id, secret or supplied signature is changed in one character, and
\* a mismatch gives the 400 answer of an invalid signature, never an exception
C20_ExactSignatureAccepted ==
    \A r \in Verifies :
        StepResult(req[r], "signatureCompare") # "none" =>
            LET rq == req[r]
                right == RazorpaySignature(env.RAZORPAY_KEY_SECRET,
                                           rq.body.razorpay_order_id,
                                           rq.body.razorpay_payment_id)
                compared == StepResult(rq, "signatureCompare")
            IN  /\ compared = "ok" <=> rq.body.razorpay_signature = right
                /\ OneCharacterOff(rq) => compared = "failed"
                /\ compared = "failed" =>
                      /\ rq.pc = "done"
                      /\ rq.res = << Json(400, "false",
                            "Payment verification failed: Invalid signature",
                            NoPolicyNumber, <<>>) >>

\* the calls of a request that reach the provider or the policy table
RetriableSteps == {"fetch", "write", "ordersCreate"}

\* each call to the provider or the policy table is made at most once by a
\* request, and its failure is the last step of the request, answered 500
StepsRunOnce ==
    \A r \in Requests :
        \A name \in RetriableSteps :
            /\ Cardinality(StepsNamed(req[r], name)) <= 1
            /\ \A i \in StepsNamed(req[r], name) :
                  req[r].steps[i].result = "failed" =>
                      /\ req[r].pc = "done"
                      /\ i = Len(req[r].steps)
                      /\ Len(req[r].res) = 1
                      /\ req[r].res[1].status = 500

\* C21: no step is retried.  A verification makes at most one payment fetch
\* and at most one policy write, a create-order request at most one
\* order-creation call, and a failure of any of them ends the request with an
\* error response
C21_NoStepRetried == []StepsRunOnce

C21_Witness ==
    \E c \in Creates, v \in Verifies :
        /\ StepResult(req[c], "ordersCreate") = "failed"
        /\ StepResult(req[v], "fetch") = "ok"
        /\ StepResult(req[v], "write") = "failed"

\* a finished verification of an order created for 'student-shield': the
\* provider reported 99900, the signature is the right one and user data is
\* present
StudentShieldPaid(v) ==
    /\ v \in Verifies
    /\ req[v].pc = "done"
    /\ \E c \in Creates :
          /\ req[c].body.planType = "student-shield"
          /\ req[c].res = << Json(200, "absent", "", NoPolicyNumber,
                                  req[v].body.razorpay_order_id) >>
    /\ req[v].expectedAmount = Num(99900)
    /\ req[v].paymentAmount = Num(99900)
    /\ req[v].body.razorpay_signature =
          RazorpaySignature(env.RAZORPAY_KEY_SECRET,
                            req[v].body.razorpay_order_id,
                            req[v].body.razorpay_payment_id)
    /\ req[v].body.user_data = FullUserData

\* a paid verification of a student-shield order has its write answered, and
\* a write that succeeded is answered 200 with the policy number of the record
PaidOrderSucceeds ==
    \A v \in Requests :
        StudentShieldPaid(v) =>
            /\ StepResult(req[v], "write") \in {"ok", "failed"}
            /\ StepResult(req[v], "write") = "ok" =>
                  /\ req[v].res = << Json(200, "true",
                        "Payment captured and policy created",
                        req[v].policyNumber, <<>>) >>
                  /\ req[v].policyNumber.t = "string"
                  /\ req[v].policyNumber \in DOMAIN policies
                  /\ policies[req[v].policyNumber].orderId =
                        req[v].body.razorpay_order_id
                  /\ policies[req[v].policyNumber].paymentId =
                        req[v].body.razorpay_payment_id

\* C22: success is reachable and complete.  After create-order for
\* 'student-shield' returned order id X, a verification for X with a
\* provider-reported amount of 99900, the correct signature, user data and a
\* table that accepts the write ends in a 200 answer carrying a policyNumber,
\* and the record with that policyNumber, orderId X and the paymentId of the
\* request exists; only a refused write keeps such a request from success
C22_SuccessComplete == []PaidOrderSucceeds

C22_Witness ==
    \E v \in Requests :
        /\ StudentShieldPaid(v)
        /\ StepResult(req[v], "write") = "ok"
        /\ req[v].res[1].status = 200
        /\ orderStore[req[v].body.razorpay_order_id] = Num(99900)

\* every record holds the identifiers and the user data of the request that
\* wrote it, under its own policyId
FieldsFromRequest ==
    \A k \in DOMAIN policies :
        LET body == req[writes[k].req].body
        IN  /\ policies[k].policyId = k
            /\ policies[k].orderId = body.razorpay_order_id
            /\ policies[k].paymentId = body.razorpay_payment_id
            /\ policies[k].userData = body.user_data

\* a verification that goes on to the policy write has read the clock for
\* its policy number: 'SSST' and the last 8 digits of the milliseconds
PolicyIdFromClock ==
    \A r \in Requests :
        (req[r].pc = "fetching" /\ req'[r].pc = "saving") =>
            /\ now' >= now
            /\ req'[r].policyNumber =
                  [t |-> "string", digits |-> now' % 100000000]

\* C23: the written policy record takes its fields from the verification
\* request unchanged: orderId and paymentId are the identifiers of the
\* request, userData is its user_data verbatim (a planType and an amount the
\* client put there included, whatever the plan and the cached amount of the
\* order), and policyId is 'SSST' with the last 8 digits of the millisecond
\* clock at the time of verification
C23_RecordFieldsFromRequest ==
    /\ []FieldsFromRequest
    /\ [][PolicyIdFromClock]_vars

C23_Witness ==
    \E k \in DOMAIN policies :
        /\ policies[k].userData.planType = "student-shield-plus"
        /\ policies[k].userData.amount = Num(1)
        /\ writes[k].cached = Num(99900)
        /\ k.digits = 99999999

\* the process handles the event of the given name in this step
Handled(name) ==
    /\ proc'.event = name
    /\ proc.event # name \/ proc'.rejections # proc.rejections

\* requests whose handler is suspended at an await
InFlight == { r \in Requests : req[r].pc \notin {"idle", "done"} }

\* while the process lives, the exit timer set or not, every suspended
\* handler can run on and the next request can arrive
HandlingContinues ==
    Alive =>
        /\ \A r \in InFlight : ENABLED HandlerStep(r)
        /\ \A r \in Requests : MayArrive(r) => ENABLED Arrival(r)

\* what each process event does
ProcessEvents ==
    /\ Handled("uncaughtException") =>
          /\ proc'.state = "running"
          /\ proc'.timer = "set" /\ proc'.waited = 0
          /\ req' = req
    /\ (Alive /\ proc'.state = "exited" /\ proc'.code = 1) =>
          /\ proc.timer = "set"
          /\ proc.waited >= 1000
    /\ \A name \in Signals :
          Handled(name) =>
              /\ proc'.state = "exited" /\ proc'.code = 0
              /\ req' = req /\ policies' = policies
    /\ Handled("unhandledRejection") =>
          /\ proc'.state = proc.state
          /\ proc'.timer = proc.timer /\ proc'.waited = proc.waited
          /\ req' = req
    /\ ~Alive => (proc' = proc /\ req' = req /\ policies' = policies)

\* C24: process events.  After an uncaught exception the process exits with
\* code 1 only once the grace delay of 1 second has passed, and handles
\* requests meanwhile; SIGTERM and SIGINT make it exit with code 0 at once,
\* whatever requests are in flight, so a verification whose policy write
\* has completed can be cut off before its e-mails and its response; an
\* unhandled promise rejection is logged and does not make the process exit
C24_ProcessEvents ==
    /\ []HandlingContinues
    /\ [][ProcessEvents]_vars

C24_Witness ==
    /\ proc.state = "exited"
    /\ proc.code = 0
    /\ proc.timer = "set"
    /\ proc.rejections = 1
    /\ \E r \in Verifies :
          /\ req[r].pc = "emailCustomer"
          /\ req[r].res = <<>>
          /\ req[r].policyNumber \in DOMAIN policies

\* a verification has sent at most one response, exactly one when it has
\* ended, and one that has not ended has a next step
OneResponseEach ==
    \A r \in Verifies :
        /\ Len(req[r].res) <= 1
        /\ req[r].pc = "done" <=> Len(req[r].res) = 1
        /\ \A i \in 1..Len(req[r].res) :
              req[r].res[i].status \in {200, 400, 500, 503}
        /\ req[r].pc # "done" => ENABLED HandlerStep(r)

\* C25: every verification, whatever the outcomes of the payment fetch, the
\* policy write and the e-mail sends, sends exactly one response, with a
\* status of 200, 400, 500 or 503: no handler sends two, a handler that has
\* ended has sent one, and a handler that has not can run on
C25_ExactlyOneResponse == []OneResponseEach

C25_Witness ==
    \E r1, r2 \in Verifies :
        /\ req[r1].pc = "done" /\ req[r2].pc = "done"
        /\ req[r1].res[1].status = 200
        /\ \E i \in 1..Len(req[r1].emails) : req[r1].emails[i].result = "failed"
        /\ req[r2].res[1].status = 400
        /\ \E i \in 1..Len(req[r2].emails) : req[r2].emails[i].result = "failed"

\* the customer confirmations a request has attempted
CustomerEmails(rq) ==
    { i \in 1..Len(rq.emails) : rq.emails[i].kind = "customer" }

\* the customer confirmations of a request carry the policy number of the
\* record the request wrote; a request without a successful write has none
ConfirmationFollowsWrite ==
    \A r \in Verifies :
        /\ \A i \in CustomerEmails(req[r]) :
              /\ StepResult(req[r], "write") = "ok"
              /\ req[r].emails[i].policyNumber = req[r].policyNumber
              /\ req[r].policyNumber \in DOMAIN policies
              /\ writes[req[r].policyNumber].req = r
        /\ ( \/ StepResult(req[r], "write") # "ok"
             \/ \E i \in 1..Len(req[r].res) : req[r].res[i].status # 200 ) =>
              CustomerEmails(req[r]) = {}

\* C26: a customer confirmation is attempted only after the policy write of
\* the same request has succeeded: the policy number of every attempted
\* customer confirmation is the policyId of a record of the table, written
\* by that request, and no customer confirmation is attempted on a failure
\* path (unknown order, provider error, amount mismatch, invalid signature,
\* persistence error)
C26_CustomerEmailAfterWrite == []ConfirmationFollowsWrite

C26_Witness ==
    \E r1, r2 \in Verifies :
        /\ CustomerEmails(req[r1]) # {}
        /\ req[r1].policyNumber \in DOMAIN policies
        /\ StepResult(req[r2], "write") = "failed"
        /\ req[r2].pc = "done"
        /\ req[r2].emails = <<>>

\* a verification the hardened handler has answered 200 is one the
\* signature-only handler answers 200 and writes when its put is accepted;
\* one the signature-only handler rejects for its signature has written
\* nothing in the hardened handler
HardenedWithinSignatureOnly ==
    \A r \in Verifies :
        LET accepting == SignatureOnlyVerify(req[r].body, req[r].policyNumber,
                                            TRUE)
        IN  /\ (Answered200(r) \/ ~WroteNothing(r)) =>
                  /\ accepting.res.status = 200
                  /\ accepting.res.policyNumber = req[r].policyNumber
                  /\ accepting.written
            /\ accepting.res.message =
                  "Payment verification failed: Invalid signature" =>
                  /\ WroteNothing(r)
                  /\ StepsNamed(req[r], "write") = {}

\* in the step the hardened handler writes a policy, the signature-only
\* handler on the same table and with the same secret writes it too
SameStoreSameWrite ==
    \A r \in Requests :
        ( /\ req[r].pc = "saving"
          /\ req'[r].pc # "saving"
          /\ req[r].policyNumber \notin DOMAIN policies
          /\ req[r].policyNumber \in DOMAIN policies' ) =>
            LET item == PolicyItem(req[r])
                twin == SignatureOnlyVerify(req[r].body, req[r].policyNumber,
                                            SavePolicyAccepted(item, TRUE))
            IN  /\ twin.written
                /\ twin.res.status = 200
                /\ policies'[item.policyId] = item

\* C27: the hardened verification handler (cache lookup, provider amount
\* check, then signature check) accepts a subset of what the signature-only
\* handler accepts.  With the same secret and the same table, every request
\* the hardened handler answers 200 with a policy written is answered 200
\* with a policy written by the signature-only handler, and every request
\* the signature-only handler rejects for an invalid signature writes no
\* policy in the hardened handler
C27_HardenedAcceptsSubset ==
    /\ []HardenedWithinSignatureOnly
    /\ [][SameStoreSameWrite]_vars

C27_Witness ==
    \E r1, r2 \in Verifies :
        /\ Answered200(r1)
        /\ SignatureOnlyVerify(req[r1].body, req[r1].policyNumber, TRUE).written
        /\ req[r2].pc = "done"
        /\ req[r2].res[1].status = 400
        /\ StepResult(req[r2], "amountCompare") = "failed"
        /\ SignatureOnlyVerify(req[r2].body, req[r2].policyNumber, TRUE).written

\* in each window of a client at most 100 calls have been passed on, and the
\* entry of the client counts them and ends with the window
WindowHolds ==
    \A ip \in ClientIPs :
        LET window == rateLog.window[ip]
        IN  /\ window.passed <= 100
            /\ window.open <=> ip \in DOMAIN rateLimitMap
            /\ window.open =>
                  /\ rateLimitMap[ip].count = window.passed
                  /\ rateLimitMap[ip].resetTime = window.start + 900000

\* what one call does to the entry of its client and to the others
CallEffect ==
    rateLog' # rateLog =>
        LET ip == rateLog'.last.ip
            known == ip \in DOMAIN rateLimitMap
            passedOn == rateLog'.last.passedOn
        IN  /\ now' >= now
            /\ rateLog'.last.time = now'
            /\ ~known =>
                  /\ passedOn
                  /\ rateLimitMap'[ip] = [count |-> 1, resetTime |-> now' + 900000]
            /\ (known /\ now' > rateLimitMap[ip].resetTime) =>
                  /\ passedOn
                  /\ rateLimitMap'[ip] = [count |-> 1, resetTime |-> now' + 900000]
            /\ (known /\ now' <= rateLimitMap[ip].resetTime) =>
                  /\ passedOn <=> rateLimitMap[ip].count < 100
                  /\ passedOn =>
                        rateLimitMap'[ip] =
                          [rateLimitMap[ip] EXCEPT !.count = @ + 1]
                  /\ ~passedOn => rateLimitMap'[ip] = rateLimitMap[ip]
            /\ \A other \in ClientIPs \ {ip} :
                  /\ other \in DOMAIN rateLimitMap' <=>
                        other \in DOMAIN rateLimitMap
                  /\ other \in DOMAIN rateLimitMap =>
                        rateLimitMap'[other] = rateLimitMap[other]
                  /\ rateLog'.window[other] = rateLog.window[other]

\* C28: the rate-limit middleware.  For the calls of one client IP at
\* non-decreasing times at most 100 are passed on within one window (it
\* starts at the first call, or at the first call made strictly after the
\* resetTime before, and lasts 15 minutes); every further call in the window
\* is answered 429 and leaves count and resetTime of the client unchanged;
\* the first call with now > resetTime is passed on and sets count to 1 and
\* resetTime to now + 15 minutes; the counters of different IPs are
\* independent
C28_RateLimit ==
    /\ []WindowHolds
    /\ [][CallEffect]_vars

C28_Witness ==
    /\ rateLog.last = [ip |-> "ip1", time |-> now, passedOn |-> FALSE]
    /\ rateLimitMap["ip1"].count = 100
    /\ rateLimitMap["ip1"].resetTime > ClockStart + 900000
    /\ now = rateLimitMap["ip1"].resetTime
    /\ "ip2" \in DOMAIN rateLimitMap
    /\ rateLimitMap["ip2"].resetTime < rateLimitMap["ip1"].resetTime

\* the pair of ids of a request
IdPair(rq) == <<rq.body.razorpay_order_id, rq.body.razorpay_payment_id>>

\* C29: the signed message determines the pair of ids.  For two different
\* pairs (orderId, paymentId) of non-empty strings that pass validation the
\* strings orderId + "|" + paymentId differ, so a signature valid for one
\* pair is never the expected signature of another
C29_SignedMessageDeterminesPair ==
    \A r1, r2 \in Verifies :
        ( /\ Validated(req[r1]) /\ Validated(req[r2])
          /\ IdPair(req[r1]) # IdPair(req[r2]) ) =>
            /\ SignedBody(req[r1].body.razorpay_order_id,
                          req[r1].body.razorpay_payment_id)
                 # SignedBody(req[r2].body.razorpay_order_id,
                              req[r2].body.razorpay_payment_id)
            /\ ~ ( /\ SignatureValid(req[r1].body)
                   /\ SignatureValid(req[r2].body)
                   /\ req[r1].body.razorpay_signature =
                        req[r2].body.razorpay_signature )

-----------------------------------------------------------------------------
(* The pending-order cache and the order lookup. *)

\* verifications that pass validation, for an issued, a not yet issued or a
\* forged order id
CacheVerifyBodies ==
    { b \in VerifyBodies :
        /\ b.razorpay_order_id # <<>>
        /\ b.razorpay_payment_id # <<>>
        /\ b.razorpay_signature =
             RazorpaySignature(TheSecret, b.razorpay_order_id,
                               b.razorpay_payment_id)
        /\ b.user_data = FullUserData }

\* orders for a configured plan, a plan the table lacks and a name every
\* object inherits, with and without an amount of the client
CacheCreateBodies ==
    { b \in CreateBodies :
        b.planType \in PlanIds \cup {"premium", "constructor"} }

NextCache ==
    \/ \E r \in Requests, body \in CacheCreateBodies : CreateOrder(r, body)
    \/ \E r \in Requests : CreateOrderCreated(r)
    \/ \E r \in Requests : CreateOrderFailed(r)
    \/ \E r \in Requests, body \in CacheVerifyBodies : VerifyPayment(r, body)

SpecCache == Init /\ [][NextCache]_vars

\* the configured plan prices, as values of the cache
PlanPriceValues == { Num(planPrices[p]) : p \in PlanIds }

\* every cached amount is a configured price: a positive integer, truthy
CacheHoldsPrices ==
    \A o \in DOMAIN orderStore :
        /\ orderStore[o] \in PlanPriceValues
        /\ orderStore[o].v \in Nat \ {0}
        /\ Truthy(orderStore[o])

\* a validated verification that arrives is answered 'Invalid order ID'
\* exactly when its order id is not a key of the cache
LookupExact ==
    \A r \in Requests :
        ( /\ req[r].kind = "none"
          /\ req'[r].kind = "verify"
          /\ Validated(req'[r]) ) =>
            ( ( /\ req'[r].pc = "done"
                /\ req'[r].res[1].status = 400
                /\ req'[r].res[1].message = "Invalid order ID" )
              <=> req'[r].body.razorpay_order_id \notin DOMAIN orderStore )

====
